---- MODULE Spec2Model ----
(***************************************************************************)
(* A model of xnmt's reporting module (xnmt/reports.py): the Reportable    *)
(* mixin, the CharCutReporter, the HtmlReporter family and                 *)
(* SegmentingHtmlReporter.apply_segmentation.                              *)
(*                                                                         *)
(* Text.  A Python str is a sequence of symbols.  A symbol is a TLA+       *)
(* string: an ordinary character is a one-letter string ("a", " ", "<"),   *)
(* and the markup that a serializer produces (a tag such as "<div>", an    *)
(* entity such as "&lt;") is one multi-letter symbol.  None is the         *)
(* one-symbol sequence <<"None">>, which is the text of no str.            *)
(* A Python dict is a function from the set of its keys.                   *)
(***************************************************************************)
EXTENDS Integers, Sequences, FiniteSets, TLC

VARIABLES
  \* ---- Reportable (reports.py 29-71)
  has_sent_info_list,  \* hasattr(self, "_sent_info_list")
  sent_info_list,      \* self._sent_info_list
  context_in,          \* the argument of the last on_get_report_input call, as passed
  context_after,       \* that same caller-owned list after the call (updated in place)
  ret,                 \* what the last on_get_report_input call returned
  raised,              \* "none", or the exception the last call raised
  added,               \* the records passed to add_sent_for_report since the last flush
  last,                \* the last call on the Reportable: [op, ctxlen, nret]
  prev,                \* the call before it
  \* ---- apply_segmentation (reports.py 290-306)
  seg_words, seg_decisions, seg_result, seg_state,
  \* ---- one reporter instance (reports.py 92-288)
  kind,                \* its class
  hyp_sents, ref_sents, src_sents,   \* CharCutReporter's accumulators
  html_body,           \* HtmlReporter: the children of <body>
  files,               \* the files under report_path: name -> content
  diff_calls,          \* the number of completed runs of the diff tool (charcut.run_on)
  rep_raised,          \* "none", or the exception the reporter's last call raised
  rep_last,            \* the reporter's last call: [op, extra]
  sent_idxs,           \* the idx of every start_sent call so far, in call order
  shadow               \* the reporter state the last create_report would have left
                       \* had it been called without its unrecognised fields

vars == <<has_sent_info_list, sent_info_list, context_in, context_after, ret, raised,
          added, last, prev, seg_words, seg_decisions, seg_result, seg_state,
          kind, hyp_sents, ref_sents, src_sents, html_body, files, diff_calls,
          rep_raised, rep_last, sent_idxs, shadow>>

reportable_vars == <<has_sent_info_list, sent_info_list, context_in, context_after, ret,
                     raised, added, last, prev>>
seg_vars == <<seg_words, seg_decisions, seg_result, seg_state>>
reporter_vars == <<kind, hyp_sents, ref_sents, src_sents, html_body, files, diff_calls,
                   rep_raised, rep_last, sent_idxs, shadow>>

\* ------------------------------------------------------------------ bounds
MaxQueue == 2     \* records queued on a Reportable between two flushes
MaxCtx == 2       \* records of an external context

\* ------------------------------------------------------------------ helpers
SeqsUpTo(S, n) == UNION {[1..k -> S] : k \in 0..n}

\* ================================================================ Reportable
Keys == {"k1", "k2"}
EmptyDict == [k \in {} |-> 1]
\* The records the model passes around: any two of them either share no key, or
\* share a key on whose value they differ while one has a key the other lacks.
Dicts == {[k \in {"k1"} |-> 1], [k \in {"k2"} |-> 2],
          [k \in Keys |-> IF k = "k1" THEN 2 ELSE 1]}

\* dict.update: a.update(b) leaves in a the keys of both, b's value where b has the key.
DictUpdate(a, b) ==
  [k \in (DOMAIN a) \cup (DOMAIN b) |-> IF k \in DOMAIN b THEN b[k] ELSE a[k]]

\* for context_i, sent_i in zip(context, self._sent_info_list): context_i.update(sent_i)
\* (zip stops at the shorter list)
ZipUpdate(context, queue) ==
  [i \in 1..Len(context) |->
     IF i <= Len(queue) THEN DictUpdate(context[i], queue[i]) ELSE context[i]]

\* context = []; for _ in range(len(self._sent_info_list)): context.append({})
FreshContext(queue) == [i \in 1..Len(queue) |-> EmptyDict]

Call(op, ctxlen, nret) == [op |-> op, ctxlen |-> ctxlen, nret |-> nret]

\* Reportable.__init__ creates the queue; a class that registers the handler itself
\* and never calls __init__ has no queue until its first add_sent_for_report.
ReportableInit ==
  /\ has_sent_info_list \in BOOLEAN
  /\ sent_info_list = <<>>
  /\ context_in = <<>>
  /\ context_after = <<>>
  /\ ret = <<>>
  /\ raised = "none"
  /\ added = <<>>
  /\ last = Call("init", 0, 0)
  /\ prev = Call("init", 0, 0)

\* (a faulty variant: the queue is replaced, not extended)
QueueReplace(queue, sent_info) == <<sent_info>>
\* self._sent_info_list.append(sent_info)
QueueAppend(queue, sent_info) == Append(queue, sent_info)

add_sent_for_report(sent_info) ==
  /\ Len(sent_info_list) < MaxQueue
  /\ has_sent_info_list' = TRUE
  /\ sent_info_list' = QueueAppend(sent_info_list, sent_info)
  /\ added' = Append(added, sent_info)
  /\ prev' = last
  /\ last' = Call("add", 0, 0)
  /\ UNCHANGED <<context_in, context_after, ret, raised>>

\* if not hasattr(self, "_sent_info_list"): return context
HasQueue(context) == has_sent_info_list

\* (a faulty variant: a shorter context passes)
LengthsAgreeOrShorter(context, queue) == Len(context) <= Len(queue)
\* assert len(context) == len(self._sent_info_list)
LengthsAgree(context, queue) == Len(context) = Len(queue)

\* (a faulty variant: the update goes the other way)
MergeExternalWins(context, queue) ==
  [i \in 1..Len(context) |->
     IF i <= Len(queue) THEN DictUpdate(queue[i], context[i]) ELSE context[i]]
Merge(context, queue) == ZipUpdate(context, queue)

\* (a faulty variant: the queue is not cleared)
KeepQueue(queue) == queue
\* self._sent_info_list.clear()
Clear(queue) == <<>>

on_get_report_input(context) ==
  /\ context_in' = context
  /\ prev' = last
  /\ IF ~HasQueue(context)
       THEN /\ ret' = context
            /\ context_after' = context
            /\ raised' = "none"
            /\ UNCHANGED <<has_sent_info_list, sent_info_list, added>>
       ELSE IF Len(context) > 0 /\ ~LengthsAgree(context, sent_info_list)
         THEN \* the assertion fails before anything is touched
              /\ raised' = "AssertionError"
              /\ ret' = <<>>
              /\ context_after' = context
              /\ UNCHANGED <<has_sent_info_list, sent_info_list, added>>
         ELSE /\ raised' = "none"
              /\ ret' = Merge(IF Len(context) > 0 THEN context
                                                  ELSE FreshContext(sent_info_list),
                              sent_info_list)
              /\ context_after' = IF Len(context) > 0 THEN ret' ELSE context
              /\ sent_info_list' = Clear(sent_info_list)
              /\ added' = <<>>
              /\ UNCHANGED has_sent_info_list
  /\ last' = Call("get", Len(context), Len(ret'))

\* ======================================================== apply_segmentation
MaxSegLen == 3    \* words, and decisions, given to apply_segmentation

SegWords == {<<>>, <<"a">>, <<"b", "c">>}
Decisions == {0, 1, 2, 3}

Segment(text, deleted) == [text |-> text, deleted |-> deleted]

\* (a faulty variant: the delete case does not reset temp)
SegStepKeepsTemp(decision, word, temp, segmented) ==
  IF decision = 0 THEN [temp |-> temp \o word, segmented |-> segmented]
  ELSE IF decision = 1
    THEN [temp |-> <<>>, segmented |-> Append(segmented, Segment(temp \o word, FALSE))]
    ELSE [temp |-> temp,
          segmented |-> Append(IF temp # <<>> THEN Append(segmented, Segment(temp, FALSE))
                                              ELSE segmented,
                               Segment(word, TRUE))]
\* One turn of "for decision, word in zip(segmentation, words)": the new (temp, segmented).
SegStep(decision, word, temp, segmented) ==
  IF decision = 0
    THEN [temp |-> temp \o word, segmented |-> segmented]
  ELSE IF decision = 1
    THEN [temp |-> <<>>, segmented |-> Append(segmented, Segment(temp \o word, FALSE))]
    ELSE [temp |-> <<>>,
          segmented |-> Append(IF temp # <<>> THEN Append(segmented, Segment(temp, FALSE))
                                              ELSE segmented,
                               Segment(word, TRUE))]

\* (a faulty variant: the last pending text is dropped)
SegFlushNever(temp, segmented) == segmented
\* if temp: segmented.append((temp, False))
SegFlush(temp, segmented) ==
  IF temp # <<>> THEN Append(segmented, Segment(temp, FALSE)) ELSE segmented

RECURSIVE SegLoop(_, _, _, _, _)
SegLoop(words, segmentation, i, temp, segmented) ==
  IF i > Len(words) \/ i > Len(segmentation)
    THEN SegFlush(temp, segmented)
    ELSE LET s == SegStep(segmentation[i], words[i], temp, segmented)
         IN  SegLoop(words, segmentation, i + 1, s.temp, s.segmented)

\* The call's outcome: the exception it raised, or "none" and the list it returned.
apply_segmentation(words, segmentation) ==
  IF Len(words) # Len(segmentation)
    THEN [raised |-> "AssertionError", value |-> <<>>]
    ELSE [raised |-> "none", value |-> SegLoop(words, segmentation, 1, <<>>, <<>>)]

SegInit ==
  /\ seg_words \in SeqsUpTo(SegWords, MaxSegLen)
  /\ seg_decisions \in SeqsUpTo(Decisions, MaxSegLen)
  /\ seg_result = [raised |-> "none", value |-> <<>>]
  /\ seg_state = "input"

ApplySegmentation ==
  /\ seg_state = "input"
  /\ seg_result' = apply_segmentation(seg_words, seg_decisions)
  /\ seg_state' = "done"
  /\ UNCHANGED <<seg_words, seg_decisions>>

\* ====================================================================== text
None == <<"None">>

RECURSIVE Join(_, _)
\* sep.join(strs)
Join(sep, strs) ==
  IF strs = <<>> THEN <<>>
  ELSE IF Len(strs) = 1 THEN strs[1]
  ELSE strs[1] \o sep \o Join(sep, Tail(strs))

Whitespace == {" ", "\n", "\t"}

RECURSIVE SplitFrom(_, _, _)
\* str.split(): the maximal runs of non-whitespace symbols of s, from position i on,
\* cur being the run read so far.
SplitFrom(s, i, cur) ==
  IF i > Len(s) THEN (IF cur = <<>> THEN <<>> ELSE <<cur>>)
  ELSE IF s[i] \in Whitespace
    THEN (IF cur = <<>> THEN <<>> ELSE <<cur>>) \o SplitFrom(s, i + 1, <<>>)
    ELSE SplitFrom(s, i + 1, Append(cur, s[i]))
Split(s) == SplitFrom(s, 1, <<>>)

\* xml.sax.saxutils.escape, one symbol
EscapeSym(c) ==
  CASE c = "&" -> <<"&", "a", "m", "p", ";">>
    [] c = "<" -> <<"&", "l", "t", ";">>
    [] c = ">" -> <<"&", "g", "t", ";">>
    [] OTHER -> <<c>>

RECURSIVE escape(_)
escape(s) == IF s = <<>> THEN <<>> ELSE EscapeSym(Head(s)) \o escape(Tail(s))

DigitSyms == <<"0", "1", "2", "3", "4", "5", "6", "7", "8", "9">>

RECURSIVE Decimal(_)
\* f"{idx}" of a natural number
Decimal(n) ==
  IF n < 10 THEN <<DigitSyms[n + 1]>>
  ELSE Decimal(n \div 10) \o <<DigitSyms[(n % 10) + 1]>>

\* ================================================================ lxml.etree
\* An element: its tag, its attributes (a sequence of <<name, value>>), its text, its
\* children and its tail (the text that follows its end tag).  Text <<>> is no text.
Node(tag, attrib, text, children, tail) ==
  [tag |-> tag, attrib |-> attrib, text |-> text, children |-> children, tail |-> tail]

Element(tag) == Node(tag, <<>>, <<>>, <<>>, <<>>)
TextElement(tag, text) == Node(tag, <<>>, text, <<>>, <<>>)

\* element.insert(index, child): list.insert, which appends when index is past the end
Insert(children, index, child) ==
  IF index >= Len(children) THEN Append(children, child)
  ELSE SubSeq(children, 1, index) \o <<child>> \o SubSeq(children, index + 1, Len(children))

RECURSIVE SerializeAttrib(_)
SerializeAttrib(attrib) ==
  IF attrib = <<>> THEN <<>>
  ELSE <<" ", Head(attrib)[1], "=", "\"">> \o escape(Head(attrib)[2]) \o <<"\"">>
       \o SerializeAttrib(Tail(attrib))

RECURSIVE tostring(_)
RECURSIVE SerializeAll(_)
\* etree.tostring(element, encoding='unicode'): the element, its subtree and its tail.
\* (The line breaks and indentation of pretty_print=True are left out.)
tostring(node) ==
  <<"<", node.tag>> \o SerializeAttrib(node.attrib)
  \o (IF node.text = <<>> /\ node.children = <<>>
        THEN <<"/", ">">>
        ELSE <<">">> \o escape(node.text) \o SerializeAll(node.children)
             \o <<"<", "/", node.tag, ">">>)
  \o escape(node.tail)
SerializeAll(nodes) ==
  IF nodes = <<>> THEN <<>> ELSE tostring(Head(nodes)) \o SerializeAll(Tail(nodes))

\* ---- etree.fromstring: a recursive-descent reading of the symbols
Failed == [ok |-> FALSE, node |-> Element("error"), text |-> <<>>, nodes |-> <<>>,
           attrib |-> <<>>, next |-> 0]

EntityOf(name) ==
  CASE name = <<"l", "t">> -> <<"<">>
    [] name = <<"g", "t">> -> <<">">>
    [] name = <<"a", "m", "p">> -> <<"&">>
    [] OTHER -> <<>>

Read(text, next) == [Failed EXCEPT !.ok = TRUE, !.text = text, !.next = next]

RECURSIVE ReadEntity(_, _, _)
\* After "&" : the name up to ";"
ReadEntity(s, i, name) ==
  IF i > Len(s) THEN Failed
  ELSE IF s[i] = ";"
    THEN (IF EntityOf(name) = <<>> THEN Failed ELSE Read(EntityOf(name), i + 1))
    ELSE ReadEntity(s, i + 1, Append(name, s[i]))

RECURSIVE ReadText(_, _, _, _)
RECURSIVE AfterEntity(_, _, _, _)
\* Character data from position i up to one of the symbols of stop (or the end)
ReadText(s, i, stop, acc) ==
  IF i > Len(s) \/ s[i] \in stop THEN Read(acc, i)
  ELSE IF s[i] = "&" THEN AfterEntity(s, stop, acc, ReadEntity(s, i + 1, <<>>))
  ELSE ReadText(s, i + 1, stop, Append(acc, s[i]))
AfterEntity(s, stop, acc, e) ==
  IF e.ok THEN ReadText(s, e.next, stop, acc \o e.text) ELSE Failed

RECURSIVE ReadAttrib(_, _, _)
RECURSIVE AfterValue(_, _, _, _)
\* The attributes of a start tag, from position i (after the tag name)
ReadAttrib(s, i, acc) ==
  IF i + 3 <= Len(s) /\ s[i] = " " /\ s[i + 2] = "=" /\ s[i + 3] \in {"\"", "'"}
    THEN AfterValue(s, i, acc, ReadText(s, i + 4, {s[i + 3], "<"}, <<>>))
    ELSE [Failed EXCEPT !.ok = TRUE, !.attrib = acc, !.next = i]
\* v: the value read after the quote at position i + 3
AfterValue(s, i, acc, v) ==
  IF v.ok /\ v.next <= Len(s) /\ s[v.next] = s[i + 3]
    THEN ReadAttrib(s, v.next + 1, Append(acc, <<s[i + 1], v.text>>))
    ELSE Failed

\* The element read, once its tail tl is read: the node and the position after it
ElementRead(tag, attrib, text, children, tl) ==
  IF tl.ok
    THEN [Failed EXCEPT !.ok = TRUE, !.next = tl.next,
                        !.node = Node(tag, attrib, text, children, tl.text)]
    ELSE Failed

RECURSIVE ReadElement(_, _)
RECURSIVE AfterAttrib(_, _, _)
RECURSIVE AfterText(_, _, _, _)
RECURSIVE AfterContent(_, _, _, _, _)
RECURSIVE ReadContent(_, _, _, _)
RECURSIVE AfterChild(_, _, _, _)
\* An element whose "<" is at position i, and the tail that follows it
ReadElement(s, i) ==
  IF i + 1 > Len(s) \/ s[i] # "<" \/ s[i + 1] \in {"/", "<", ">", " ", "&"} THEN Failed
  ELSE AfterAttrib(s, s[i + 1], ReadAttrib(s, i + 2, <<>>))
\* a: the attributes read; then "/>" or ">", the text, the children and the end tag
AfterAttrib(s, tag, a) ==
  IF ~a.ok \/ a.next > Len(s) THEN Failed
  ELSE IF s[a.next] = "/"
    THEN IF a.next + 1 <= Len(s) /\ s[a.next + 1] = ">"
           THEN ElementRead(tag, a.attrib, <<>>, <<>>, ReadText(s, a.next + 2, {"<"}, <<>>))
           ELSE Failed
  ELSE IF s[a.next] = ">"
    THEN AfterText(s, tag, a.attrib, ReadText(s, a.next + 1, {"<"}, <<>>))
    ELSE Failed
AfterText(s, tag, attrib, t) ==
  IF t.ok THEN AfterContent(s, tag, attrib, t.text, ReadContent(s, t.next, tag, <<>>))
  ELSE Failed
AfterContent(s, tag, attrib, text, c) ==
  IF c.ok THEN ElementRead(tag, attrib, text, c.nodes, ReadText(s, c.next, {"<"}, <<>>))
  ELSE Failed
\* The child elements from position i up to and including the end tag of tag
ReadContent(s, i, tag, acc) ==
  IF i + 1 > Len(s) \/ s[i] # "<" THEN Failed
  ELSE IF s[i + 1] = "/"
    THEN IF i + 3 <= Len(s) /\ s[i + 2] = tag /\ s[i + 3] = ">"
           THEN [Failed EXCEPT !.ok = TRUE, !.nodes = acc, !.next = i + 4]
           ELSE Failed
    ELSE AfterChild(s, tag, acc, ReadElement(s, i))
AfterChild(s, tag, acc, c) ==
  IF c.ok THEN ReadContent(s, c.next, tag, Append(acc, c.node)) ELSE Failed

\* r: the element read at the start of s; it must be all of s
Parsed(s, r) ==
  IF r.ok /\ r.next = Len(s) + 1 /\ r.node.tail = <<>>
    THEN [raised |-> "none", node |-> r.node]
    ELSE [raised |-> "XMLSyntaxError", node |-> Element("error")]

\* etree.fromstring(text): one element and nothing after it, or XMLSyntaxError
fromstring(s) == Parsed(s, ReadElement(s, 1))

\* ================================================================= reporters
MaxSents == 2     \* sentences reported to one reporter between two flushes
MaxRuns == 2      \* completed runs of the diff tool

\* report_path, and the files derived from it
ReportPath == <<"report">>
FileName(suffix) == ReportPath \o suffix
NoFiles == [n \in {} |-> <<>>]
\* open(name, "w") ... write(content): the file is created or replaced
Write(fs, name, content) ==
  [n \in (DOMAIN fs) \cup {name} |-> IF n = name THEN content ELSE fs[n]]

\* ---- what the inference driver passes to create_report
\* src_vocab.i2w
I2W == <<<<"a">>, <<"b", "&">>, <<"<">>>>
\* src: an ArrayInput (speech features), or a sentence of token ids
Speech == [speech |-> TRUE, tokens |-> <<>>]
TextInput(tokens) == [speech |-> FALSE, tokens |-> tokens]
Srcs == {Speech, TextInput(<<2, 3>>)}
\* output.apply_post_processor(output_proc): the hypothesis as a str
Outputs == {<<"x", " ", "y">>}
References == {None, <<"r">>}
Idxs == {2, 10}
\* segmentation: one entry per source token, its first component the decision
Segmentations == {<<>>, <<<<0>>>>, <<<<1>>, <<2>>>>}

\* The calls made on a reporter of class k; a field that its create_report does not
\* read (idx, reference or segmentation) is passed with one value only.
CallArgs(k) ==
  [idx : IF k = "CharCutReporter" THEN {2} ELSE Idxs,
   src : Srcs,
   output : Outputs,
   reference : IF k = "SegmentingHtmlReporter" THEN {None} ELSE References,
   segmentation : IF k = "SegmentingHtmlReporter" THEN Segmentations ELSE {<<>>}]

\* " ".join([src_vocab.i2w[src_token] for src_token in src])
SrcStr(src) == Join(<<" ">>, [i \in 1..Len(src.tokens) |-> I2W[src.tokens[i]]])

\* ---- keyword binding of create_report(**named_fields)
Kinds == {"CharCutReporter", "AttentionHtmlReporter", "SegmentingHtmlReporter"}
HtmlKinds == {"AttentionHtmlReporter", "SegmentingHtmlReporter"}
AllFields == {"idx", "src", "src_vocab", "trg_vocab", "output", "output_proc",
              "attentions", "reference", "segmentation", "score"}
\* the named parameters of each create_report
Params(k) ==
  CASE k = "CharCutReporter" ->
         {"src", "src_vocab", "trg_vocab", "output", "output_proc", "reference"}
    [] k = "AttentionHtmlReporter" ->
         {"idx", "src", "src_vocab", "trg_vocab", "output", "output_proc", "attentions",
          "reference"}
    [] OTHER ->
         {"segmentation", "src", "src_vocab", "idx", "output", "output_proc"}
\* those without a default
Required(k) == Params(k) \ {"reference"}

\* (a faulty variant: the HTML reporters lack **kwargs)
OnlyCharCutTakesKwargs(k) == k = "CharCutReporter"
\* whether the signature ends in **kwargs
HasVarKw(k) == TRUE

\* Python's binding of a call by keyword: "none", or the TypeError it raises
Bind(k, names) ==
  IF ~(Required(k) \subseteq names) THEN "TypeError"
  ELSE IF names \ Params(k) # {} /\ ~HasVarKw(k) THEN "TypeError"
  ELSE "none"

\* ---- the state of one reporter instance
ReporterState(hyp, ref, src, body, fs, diffs, exc, idxs) ==
  [hyp |-> hyp, ref |-> ref, src |-> src, body |-> body, files |-> fs,
   diffs |-> diffs, raised |-> exc, idxs |-> idxs]

NewReporter == ReporterState(<<>>, <<>>, <<>>, <<>>, NoFiles, 0, "none", <<>>)

Cur == ReporterState(hyp_sents, ref_sents, src_sents, html_body, files, diff_calls,
                     rep_raised, sent_idxs)

Becomes(st) ==
  /\ hyp_sents' = st.hyp
  /\ ref_sents' = st.ref
  /\ src_sents' = st.src
  /\ html_body' = st.body
  /\ files' = st.files
  /\ diff_calls' = st.diffs
  /\ rep_raised' = st.raised
  /\ sent_idxs' = st.idxs

\* ----------------------------------------------------------- CharCutReporter
CharCutCreate(st, a) ==
  [st EXCEPT !.src = IF ~a.src.speech THEN Append(@, SrcStr(a.src)) ELSE @,
             !.hyp = Append(@, a.output),
             !.ref = Append(@, a.reference),
             !.raised = "none"]

\* (a faulty variant: only the hypotheses are cleared)
ClearHypOnly(st) == [st EXCEPT !.hyp = <<>>]
\* self.hyp_sents, self.ref_sents, self.src_sents = [], [], []
ClearAccumulators(st) == [st EXCEPT !.hyp = <<>>, !.ref = <<>>, !.src = <<>>]

NewLine == <<"\n">>
HasNone(strs) == \E i \in 1..Len(strs) : strs[i] = None

\* The end of on_end_inference, once the three text files are written (fs): the
\* diff tool runs; charcut_ok: whether it returns rather than raises.
RunCharCut(st, fs, charcut_ok) ==
  IF ~charcut_ok THEN [st EXCEPT !.files = fs, !.raised = "CharCutError"]
  ELSE ClearAccumulators(
         [st EXCEPT !.files = Write(fs, FileName(<<".charcut.html">>), <<"charcut">>),
                    !.diffs = @ + 1,
                    !.raised = "none"])

\* if self.src_sents: ... fout.write("\n".join(self.src_sents))
WriteSrc(st, fs) ==
  IF st.src # <<>> THEN Write(fs, FileName(<<".charcut.tmp_s">>), Join(NewLine, st.src))
  ELSE fs

\* The reference file, after the hypothesis file is written (fs)
WriteRef(st, fs, charcut_ok) ==
  IF HasNone(st.ref)
    \* "\n".join raises on a None item, after open(ref_filename, "w")
    THEN [st EXCEPT !.files = Write(fs, FileName(<<".charcut.tmp_r">>), <<>>),
                    !.raised = "TypeError"]
    ELSE RunCharCut(st,
                    WriteSrc(st, Write(fs, FileName(<<".charcut.tmp_r">>),
                                       Join(NewLine, st.ref))),
                    charcut_ok)

\* on_end_inference
CharCutEnd(st, charcut_ok) ==
  IF st.hyp = <<>> THEN [st EXCEPT !.raised = "none"]
  ELSE WriteRef(st,
                Write(st.files, FileName(<<".charcut.tmp_c">>), Join(NewLine, st.hyp)),
                charcut_ok)

\* -------------------------------------------------------------- HtmlReporter
Title(idx) == <<"Translation Report for Sentence ">> \o Decimal(idx)

\* the tree HtmlReporter.__init__ builds, around the children of <body>
html_tree(body) ==
  Node("html", <<>>, <<>>,
       <<Node("meta", <<<<"charset", <<"UTF-8">>>>>>, <<>>, <<>>, <<>>),
         Node("head", <<>>, <<>>, <<TextElement("title", <<"Translation Report">>)>>, <<>>),
         Node("body", <<>>, <<>>, body, <<>>)>>,
       <<>>)

\* (a faulty variant: the new section replaces the body)
StartSentReplacing(body, idx) ==
  <<Node("div", <<>>, <<>>,
         <<TextElement("h1", Title(idx)),
           Node("div", <<<<"name", <<"main_content">>>>>>, <<>>, <<>>, <<>>)>>, <<>>)>>
\* start_sent: the body with the new section; its main_content is the second child of
\* the last section.
start_sent(body, idx) ==
  Append(body,
         Node("div", <<>>, <<>>,
              <<TextElement("h1", Title(idx)),
                Node("div", <<<<"name", <<"main_content">>>>>>, <<>>, <<>>, <<>>)>>,
              <<>>))

MainContent(body, j) == body[j].children[2].children
WithMainContent(body, j, children) == [body EXCEPT ![j].children[2].children = children]

Paragraph(caption, sent) ==
  Node("p", <<>>, <<>>,
       <<TextElement("b", <<caption, ":", " ">>), TextElement("span", sent)>>, <<>>)

\* add_sent_in_out: the children of main_content afterwards, and (src_str, trg_str)
add_sent_in_out(main_content, a, reference) ==
  [children |->
     main_content
     \o (IF a.src.speech THEN <<>> ELSE <<Paragraph("Source Words", SrcStr(a.src))>>)
     \o <<Paragraph("Output Words", a.output)>>
     \o (IF reference # None /\ reference # <<>>
           THEN <<Paragraph("Reference Words", reference)>> ELSE <<>>),
   src_str |-> IF a.src.speech THEN <<>> ELSE SrcStr(a.src),
   trg_str |-> a.output]

\* write_html_tree
write_html_tree(fs, body) == Write(fs, FileName(<<".html">>), tostring(html_tree(body)))

\* xnmt.plot.plot_attention / plot_speech_features with a file_name: the image file
PlotToFile(fs, name) == Write(fs, name, <<"PNG">>)

\* ----------------------------------------------------- AttentionHtmlReporter
FeatFile(idx) == FileName(<<".", "src_feat", ".">> \o Decimal(idx) \o <<".", "png">>)
AttFile(idx) == FileName(<<".", "attentions", ".">> \o Decimal(idx) \o <<".", "png">>)
\* os.path.basename of it: report_path is a file name prefix without directory
Img(file, alt) ==
  Node("img", <<<<"src", file>>, <<"alt", <<alt>>>>>>, <<>>, <<>>, <<>>)

\* the <p> that add_atts appends, with desc="Attentions"
AttentionBlock(a) ==
  Node("p", <<>>, <<>>,
       <<TextElement("b", <<"Attentions", ":">>),
         Element("br"),
         Node("table", <<>>, <<>>,
              <<Node("tr", <<>>, <<>>,
                     <<Node("td", <<>>, <<>>,
                            IF a.src.speech
                              THEN <<Img(FeatFile(a.idx), "speech features")>>
                              ELSE <<>>,
                            <<>>),
                       Node("td", <<>>, <<>>,
                            <<Img(AttFile(a.idx), "attention matrix")>>, <<>>)>>,
                     <<>>)>>,
              <<>>)>>,
       <<>>)

\* add_atts: the children of main_content and the files afterwards
add_atts(main_content, fs, a) ==
  [children |-> Append(main_content, AttentionBlock(a)),
   files |-> PlotToFile(IF a.src.speech THEN PlotToFile(fs, FeatFile(a.idx)) ELSE fs,
                        AttFile(a.idx))]

\* body: after start_sent; atts: after add_sent_in_out and add_atts on its last section
AttentionWrite(st, a, body, atts) ==
  [st EXCEPT !.body = WithMainContent(body, Len(body), atts.children),
             !.idxs = Append(@, a.idx),
             !.files = write_html_tree(atts.files,
                                       WithMainContent(body, Len(body), atts.children)),
             !.raised = "none"]

AttentionFill(st, a, body) ==
  AttentionWrite(st, a, body,
                 add_atts(add_sent_in_out(MainContent(body, Len(body)), a,
                                          a.reference).children,
                          st.files, a))

AttentionCreate(st, a) == AttentionFill(st, a, start_sent(st.body, a.idx))

\* ---------------------------------------------------- SegmentingHtmlReporter
DelOpen == <<"<", "font", " ", "color", "=", "'", "red", "'", ">", "<", "del", ">">>
DelClose == <<"<", "/", "del", ">", "<", "/", "font", ">">>

\* segment_decision = [int(x[0]) for x in segment_decision]
SegmentDecision(segmentation) == [i \in 1..Len(segmentation) |-> segmentation[i][1]]
\* src_words = [escape(x) for x in src_str.split()]
SrcWords(split) == [i \in 1..Len(split) |-> escape(split[i])]
\* [(x if not delete else ("<font color='red'><del>" + x + "</del></font>")) ...]
Marked(segs) ==
  [i \in 1..Len(segs) |->
     IF ~segs[i].deleted THEN segs[i].text ELSE DelOpen \o segs[i].text \o DelClose]
\* "<p>Segmentation: " + ", ".join(segmented) + "</p>"
SegmentHtml(segmented) ==
  <<"<", "p", ">", "Segmentation: ">> \o Join(<<",", " ">>, segmented)
  \o <<"<", "/", "p", ">">>

SegmentingWrite(st, body) ==
  [st EXCEPT !.body = body, !.files = write_html_tree(st.files, body), !.raised = "none"]

\* children: main_content after add_sent_in_out; parsed: etree.fromstring(segment_html)
SegmentingInsert(st, children, parsed) ==
  IF parsed.raised # "none" THEN [st EXCEPT !.raised = parsed.raised]
  ELSE SegmentingWrite(st, WithMainContent(st.body, Len(st.body),
                                           Insert(children, 2, parsed.node)))

\* applied: what apply_segmentation(src_words, segment_decision) did
SegmentingApplied(st, children, applied) ==
  IF applied.raised # "none" THEN [st EXCEPT !.raised = applied.raised]
  ELSE IF Len(applied.value) > 0
    THEN SegmentingInsert(st, children, fromstring(SegmentHtml(Marked(applied.value))))
    ELSE SegmentingWrite(st, st.body)

\* io: what add_sent_in_out did on the main_content of the new section, the last of body
SegmentingFill(st, a, body, io) ==
  SegmentingApplied([st EXCEPT !.body = WithMainContent(body, Len(body), io.children),
                               !.idxs = Append(@, a.idx)],
                    io.children,
                    apply_segmentation(SrcWords(Split(io.src_str)),
                                       SegmentDecision(a.segmentation)))

SegmentingStart(st, a, body) ==
  SegmentingFill(st, a, body, add_sent_in_out(MainContent(body, Len(body)), a, None))

SegmentingCreate(st, a) == SegmentingStart(st, a, start_sent(st.body, a.idx))

\* ------------------------------------------------------------------- actions
\* the names of the fields passed: the required ones, reference when given, and extra
Names(k, a, extra) ==
  Required(k) \cup extra \cup (IF a.reference # None THEN {"reference"} ELSE {})

\* reporter.create_report(**fields): the named fields of a, and the names in extra
create_report(st, k, a, extra) ==
  IF Bind(k, Names(k, a, extra)) # "none"
    THEN [st EXCEPT !.raised = Bind(k, Names(k, a, extra))]
    ELSE CASE k = "CharCutReporter" -> CharCutCreate(st, a)
           [] k = "AttentionHtmlReporter" -> AttentionCreate(st, a)
           [] OTHER -> SegmentingCreate(st, a)

Op(op, extra) == [op |-> op, extra |-> extra]

ReporterInit ==
  /\ kind \in Kinds
  /\ hyp_sents = <<>>
  /\ ref_sents = <<>>
  /\ src_sents = <<>>
  /\ html_body = <<>>
  /\ files = NoFiles
  /\ diff_calls = 0
  /\ rep_raised = "none"
  /\ sent_idxs = <<>>
  /\ rep_last = Op("init", {})
  /\ shadow = NewReporter

\* the unrecognised fields a caller adds
Extras(k) == {{}, AllFields \ Params(k)}

CreateReport ==
  /\ Len(hyp_sents) < MaxSents /\ Len(html_body) < MaxSents
  /\ \E a \in CallArgs(kind), extra \in Extras(kind) :
       /\ Becomes(create_report(Cur, kind, a, extra))
       /\ shadow' = create_report(Cur, kind, a, {})
       /\ rep_last' = Op("create_report", extra)
  /\ UNCHANGED <<kind, reportable_vars, seg_vars>>

OnEndInference ==
  /\ kind = "CharCutReporter"
  /\ diff_calls < MaxRuns
  /\ \E charcut_ok \in BOOLEAN : Becomes(CharCutEnd(Cur, charcut_ok))
  /\ rep_last' = Op("on_end_inference", {})
  /\ UNCHANGED <<kind, shadow, reportable_vars, seg_vars>>

StartSent ==
  /\ kind \in HtmlKinds
  /\ Len(html_body) < MaxSents
  /\ \E idx \in Idxs :
       Becomes([Cur EXCEPT !.body = start_sent(html_body, idx),
                           !.idxs = Append(@, idx), !.raised = "none"])
  /\ rep_last' = Op("start_sent", {})
  /\ UNCHANGED <<kind, shadow, reportable_vars, seg_vars>>

\* add_sent_in_out on the main_content that the last start_sent call returned, while
\* it is empty
AddSentInOut ==
  /\ kind \in HtmlKinds
  /\ html_body # <<>>
  /\ \E j \in {Len(html_body)}, a \in CallArgs("AttentionHtmlReporter") :
       /\ MainContent(html_body, j) = <<>>
       /\ a.idx = sent_idxs[j]
       /\ Becomes([Cur EXCEPT
                     !.body = WithMainContent(html_body, j,
                                add_sent_in_out(<<>>, a, a.reference).children),
                     !.raised = "none"])
  /\ rep_last' = Op("add_sent_in_out", {})
  /\ UNCHANGED <<kind, shadow, reportable_vars, seg_vars>>

WriteHtmlTree ==
  /\ kind \in HtmlKinds
  /\ Becomes([Cur EXCEPT !.files = write_html_tree(files, html_body), !.raised = "none"])
  /\ rep_last' = Op("write_html_tree", {})
  /\ UNCHANGED <<kind, shadow, reportable_vars, seg_vars>>

\* ------------------------------------------------- the claimed segmentation
\* The fold of the documentation, on the first n (decision, word) pairs:
\* the pending text and the segments emitted so far.
RECURSIVE ClaimedFold(_, _, _)
ClaimedFold(words, decisions, n) ==
  IF n = 0 THEN [pending |-> <<>>, out |-> <<>>]
  ELSE LET before == ClaimedFold(words, decisions, n - 1)
           w == words[n]
           d == decisions[n]
       IN  CASE d = 0 -> [pending |-> before.pending \o w, out |-> before.out]
             [] d = 1 -> [pending |-> <<>>,
                          out |-> before.out \o <<Segment(before.pending \o w, FALSE)>>]
             [] OTHER -> [pending |-> <<>>,
                          out |-> before.out
                                  \o (IF before.pending = <<>> THEN <<>>
                                      ELSE <<Segment(before.pending, FALSE)>>)
                                  \o <<Segment(w, TRUE)>>]

ClaimedSegmentation(words, decisions) ==
  LET f == ClaimedFold(words, decisions, Len(words))
  IN  f.out \o (IF f.pending = <<>> THEN <<>> ELSE <<Segment(f.pending, FALSE)>>)

RECURSIVE Flatten(_)
Flatten(ss) == IF ss = <<>> THEN <<>> ELSE Head(ss) \o Flatten(Tail(ss))

RECURSIVE Pick(_, _)
\* The elements of the sequence s at the positions of the set keep, in order.
Pick(s, keep) ==
  IF s = <<>> THEN <<>>
  ELSE Pick(SubSeq(s, 1, Len(s) - 1), keep)
       \o (IF Len(s) \in keep THEN <<s[Len(s)]>> ELSE <<>>)

\* ============================================================ specifications
SegIdle ==
  /\ seg_words = <<>>
  /\ seg_decisions = <<>>
  /\ seg_result = [raised |-> "none", value |-> <<>>]
  /\ seg_state = "input"

ReportableIdle ==
  /\ has_sent_info_list = TRUE
  /\ sent_info_list = <<>>
  /\ context_in = <<>>
  /\ context_after = <<>>
  /\ ret = <<>>
  /\ raised = "none"
  /\ added = <<>>
  /\ last = Call("init", 0, 0)
  /\ prev = Call("init", 0, 0)

ReporterIdle ==
  /\ kind = "none"
  /\ hyp_sents = <<>>
  /\ ref_sents = <<>>
  /\ src_sents = <<>>
  /\ html_body = <<>>
  /\ files = NoFiles
  /\ diff_calls = 0
  /\ rep_raised = "none"
  /\ rep_last = Op("init", {})
  /\ sent_idxs = <<>>
  /\ shadow = NewReporter

InitReportable == ReportableInit /\ SegIdle /\ ReporterIdle

AddSentForReport ==
  /\ \E d \in Dicts : add_sent_for_report(d)
  /\ UNCHANGED <<seg_vars, reporter_vars>>

OnGetReportInput ==
  /\ \E c \in SeqsUpTo(Dicts, MaxCtx) : on_get_report_input(c)
  /\ UNCHANGED <<seg_vars, reporter_vars>>

NextReportable == AddSentForReport \/ OnGetReportInput

SpecReportable == InitReportable /\ [][NextReportable]_vars

InitSeg == SegInit /\ ReportableIdle /\ ReporterIdle

NextSeg == ApplySegmentation /\ UNCHANGED <<reportable_vars, reporter_vars>>

SpecSeg == InitSeg /\ [][NextSeg]_vars

InitReporter == ReporterInit /\ ReportableIdle /\ SegIdle

NextReporter ==
  \/ CreateReport
  \/ OnEndInference
  \/ StartSent
  \/ AddSentInOut
  \/ WriteHtmlTree

SpecReporter == InitReporter /\ [][NextReporter]_vars

\* ==================================================================== claims

\* C1: after N add_sent_for_report calls d_1..d_N, on_get_report_input with an empty
\* external context returns N records, record i holding every key/value of d_i,
\* and leaves the internal queue empty.
C1_FlushReturnsAllQueued ==
  [][(last'.op = "get" /\ context_in' = <<>>) =>
       /\ raised' = "none"
       /\ Len(ret') = Len(added)
       /\ \A i \in 1..Len(added) : \A k \in DOMAIN added[i] :
            k \in DOMAIN ret'[i] /\ ret'[i][k] = added[i][k]
       /\ sent_info_list' = <<>>]_vars

C1_Witness ==
  /\ last.op = "get" /\ last.ctxlen = 0 /\ last.nret = 2
  /\ DOMAIN ret[1] = Keys /\ ret[2] = [k \in {"k2"} |-> 2]
  /\ sent_info_list = <<>>

\* C2: a second on_get_report_input right after a first one, both with an empty
\* external context and no add_sent_for_report in between, returns an empty context.
C2_SecondFlushEmpty ==
  (last.op = "get" /\ last.ctxlen = 0 /\ prev.op = "get" /\ prev.ctxlen = 0)
    => (ret = <<>> /\ raised = "none")

C2_Witness ==
  /\ last.op = "get" /\ last.ctxlen = 0
  /\ prev.op = "get" /\ prev.ctxlen = 0 /\ prev.nret = 2
  /\ ret = <<>>

\* C3 as stated: on_get_report_input with a non-empty external context whose length
\* differs from the queue's raises the assertion error, with the external context
\* unmodified and the queue not cleared.
C3_MismatchAlwaysAsserts ==
  [][(last'.op = "get" /\ Len(context_in') > 0
        /\ Len(context_in') # Len(sent_info_list)) =>
       /\ raised' = "AssertionError"
       /\ context_after' = context_in'
       /\ sent_info_list' = sent_info_list]_vars

\* C3 as amended: the assertion guards only a Reportable that has its queue
\* attribute; one that has none returns the external context as it was given.
C3_MismatchAssertsWhenQueueExists ==
  [][(last'.op = "get" /\ Len(context_in') > 0
        /\ Len(context_in') # Len(sent_info_list)) =>
       /\ context_after' = context_in'
       /\ sent_info_list' = sent_info_list
       /\ IF has_sent_info_list
            THEN raised' = "AssertionError"
            ELSE raised' = "none" /\ ret' = context_in']_vars

C3_Witness ==
  /\ last.op = "get" /\ raised = "AssertionError"
  /\ Len(context_in) = 1 /\ Len(sent_info_list) = 2
  /\ context_after = context_in

\* C9: merging a queue of N records into a non-empty external context of length N
\* gives, at each position, the union of the keys; a key of one side keeps that
\* side's value, a key of both takes the queued record's value.
C9_MergeQueuedWins ==
  [][(last'.op = "get" /\ has_sent_info_list /\ Len(context_in') > 0
        /\ Len(context_in') = Len(sent_info_list)) =>
       /\ raised' = "none"
       /\ Len(ret') = Len(sent_info_list)
       /\ \A i \in 1..Len(sent_info_list) :
            /\ DOMAIN ret'[i] = (DOMAIN context_in'[i]) \cup (DOMAIN sent_info_list[i])
            /\ \A k \in DOMAIN ret'[i] :
                 ret'[i][k] = IF k \in DOMAIN sent_info_list[i]
                                THEN sent_info_list[i][k] ELSE context_in'[i][k]]_vars

C9_Witness ==
  /\ last.op = "get" /\ last.ctxlen = 2 /\ raised = "none"
  /\ context_in[1] = [k \in Keys |-> IF k = "k1" THEN 2 ELSE 1]
  /\ ret[1] = [k \in Keys |-> 1]
  /\ DOMAIN context_in[2] = {"k2"} /\ DOMAIN ret[2] = Keys

\* C4: apply_segmentation returns the documented left-to-right fold (0 appends to the
\* pending text, 1 appends and emits it, anything else emits the pending text if any
\* and then the word as deleted; a last pending text is emitted), and fails the
\* assertion on sequences of unequal length.
C4_SegmentationIsFold ==
  /\ seg_state = "done" =>
       IF Len(seg_words) = Len(seg_decisions)
         THEN /\ seg_result.raised = "none"
              /\ seg_result.value = ClaimedSegmentation(seg_words, seg_decisions)
         ELSE seg_result.raised = "AssertionError"
  /\ apply_segmentation(<<<<"a", "b">>, <<"c", "d">>, <<"e", "f">>>>, <<0, 1, 2>>).value
       = <<Segment(<<"a", "b", "c", "d">>, FALSE), Segment(<<"e", "f">>, TRUE)>>
  /\ apply_segmentation(<<<<"a">>, <<"b">>>>, <<0, 0>>).value
       = <<Segment(<<"a", "b">>, FALSE)>>

C4_Witness ==
  /\ seg_state = "done"
  /\ seg_words = <<<<"a">>, <<"b", "c">>, <<"a">>>> /\ seg_decisions = <<0, 1, 2>>
  /\ seg_result.value = <<Segment(<<"a", "b", "c">>, FALSE), Segment(<<"a">>, TRUE)>>

\* C10: on non-empty words, apply_segmentation conserves the input: the texts of the
\* segments concatenate to the concatenation of the words, no segment is empty, and
\* the deleted segments are the words whose decision is neither 0 nor 1, in order.
C10_SegmentationConserves ==
  (/\ seg_state = "done"
   /\ Len(seg_words) = Len(seg_decisions)
   /\ \A i \in 1..Len(seg_words) : seg_words[i] # <<>>) =>
    LET segs == seg_result.value
        texts == [i \in 1..Len(segs) |-> segs[i].text]
    IN  /\ seg_result.raised = "none"
        /\ Flatten(texts) = Flatten(seg_words)
        /\ \A i \in 1..Len(segs) : segs[i].text # <<>>
        /\ Pick(texts, {i \in 1..Len(segs) : segs[i].deleted})
             = Pick(seg_words, {i \in 1..Len(seg_words) : seg_decisions[i] \notin {0, 1}})

C10_Witness ==
  /\ seg_state = "done"
  /\ seg_words = <<<<"a">>, <<"b", "c">>, <<"a">>>> /\ seg_decisions = <<0, 3, 0>>
  /\ seg_result.value = <<Segment(<<"a">>, FALSE), Segment(<<"b", "c">>, TRUE),
                          Segment(<<"a">>, FALSE)>>

\* ---- reading back what was written
RECURSIVE LinesFrom(_, _, _)
LinesFrom(s, i, cur) ==
  IF i > Len(s) THEN <<cur>>
  ELSE IF s[i] = "\n" THEN <<cur>> \o LinesFrom(s, i + 1, <<>>)
  ELSE LinesFrom(s, i + 1, Append(cur, s[i]))
\* the lines of a text file
Lines(content) == IF content = <<>> THEN <<>> ELSE LinesFrom(content, 1, <<>>)

DigitValue(c) == CHOOSE d \in 0..9 : DigitSyms[d + 1] = c

RECURSIVE ParseDecimal(_)
ParseDecimal(digits) ==
  IF digits = <<>> THEN 0
  ELSE 10 * ParseDecimal(SubSeq(digits, 1, Len(digits) - 1)) + DigitValue(digits[Len(digits)])

\* A titled sentence section: <div><h1>Translation Report for Sentence N</h1>...</div>
IsSection(node) ==
  /\ node.tag = "div"
  /\ Len(node.children) >= 1
  /\ node.children[1].tag = "h1"
  /\ Len(node.children[1].text) >= 2
  /\ node.children[1].text[1] = "Translation Report for Sentence "
  /\ \A i \in 2..Len(node.children[1].text) :
       \E d \in 1..10 : DigitSyms[d] = node.children[1].text[i]
SectionIdx(node) == ParseDecimal(Tail(node.children[1].text))

\* The sentence numbers of the titled sections among the children of <body>, in order
SectionIdxs(body) ==
  LET titled == Pick(body, {j \in 1..Len(body) : IsSection(body[j])})
  IN  [j \in 1..Len(titled) |-> SectionIdx(titled[j])]

HtmlFile == FileName(<<".html">>)
CharCutFiles == {FileName(<<".charcut.tmp_c">>), FileName(<<".charcut.tmp_r">>),
                 FileName(<<".charcut.tmp_s">>)}

\* C5: on a CharCutReporter, on_end_inference with no accumulated hypothesis writes no
\* file, calls no diff tool and changes nothing; an on_end_inference that completes
\* leaves the three accumulators empty, so that a second one right after it is a no-op.
C5_EndOfInferenceIdempotent ==
  [][(kind = "CharCutReporter" /\ rep_last'.op = "on_end_inference") =>
       /\ hyp_sents = <<>> =>
            /\ rep_raised' = "none"
            /\ <<files, diff_calls, hyp_sents, ref_sents, src_sents>>' =
               <<files, diff_calls, hyp_sents, ref_sents, src_sents>>
       /\ rep_raised' = "none" =>
            hyp_sents' = <<>> /\ ref_sents' = <<>> /\ src_sents' = <<>>
       /\ (rep_last.op = "on_end_inference" /\ rep_raised = "none") =>
            /\ rep_raised' = "none"
            /\ <<files, diff_calls, hyp_sents, ref_sents, src_sents>>' =
               <<files, diff_calls, hyp_sents, ref_sents, src_sents>>]_vars

C5_Witness ==
  /\ kind = "CharCutReporter"
  /\ rep_last.op = "on_end_inference" /\ rep_raised = "none"
  /\ diff_calls = 1
  /\ FileName(<<".charcut.tmp_s">>) \in DOMAIN files
  /\ Len(Lines(files[FileName(<<".charcut.tmp_s">>)])) = 2
  /\ hyp_sents = <<>> /\ ref_sents = <<>> /\ src_sents = <<>>

\* C6 as stated: after K >= 1 create_report calls since the last flush (sources textual
\* or not, reference given or omitted), on_end_inference writes the hypothesis, the
\* reference and the source file, each with one line per reported sentence, in order.
C6_EndWritesThreeAlignedFiles ==
  [][(kind = "CharCutReporter" /\ rep_last'.op = "on_end_inference"
        /\ Len(hyp_sents) >= 1) =>
       /\ \A f \in CharCutFiles :
            /\ f \in DOMAIN files'
            /\ Len(Lines(files'[f])) = Len(hyp_sents)
       /\ Lines(files'[FileName(<<".charcut.tmp_c">>)]) = hyp_sents]_vars

C7_SectionsCounted ==
  kind \in HtmlKinds =>
    (SectionIdxs(html_body) = sent_idxs /\ Len(html_body) = Len(sent_idxs))

C7_WriteStep ==
  \/ rep_last'.op = "write_html_tree"
  \/ rep_last'.op = "create_report" /\ rep_raised' = "none"

C7_FileIsWholeTree ==
  /\ files'[HtmlFile] = tostring(html_tree(html_body'))
  /\ \A read \in {fromstring(files'[HtmlFile])} :
       /\ read.raised = "none"
       /\ read.node.tag = "html"
       /\ Len(read.node.children) = 3
       /\ SectionIdxs(read.node.children[3].children) = sent_idxs'

C7_Step ==
  kind \in HtmlKinds =>
    /\ Len(html_body') >= Len(html_body)
    /\ \A j \in 1..Len(html_body) : html_body'[j].children[1] = html_body[j].children[1]
    /\ C7_WriteStep => (HtmlFile \in DOMAIN files' /\ C7_FileIsWholeTree)

\* C7: the body of an HtmlReporter holds one titled section per start_sent call, in call
\* order; no step removes or reorders a section; and each write of the HTML file
\* writes the serialization of the whole tree, from which the same titled sections
\* are read back.
C7_SectionsKept == []C7_SectionsCounted /\ [][C7_Step]_vars

C7_Witness ==
  /\ kind = "SegmentingHtmlReporter"
  /\ sent_idxs = <<10, 2>>
  /\ rep_last.op = "create_report" /\ rep_raised = "none"
  /\ Len(MainContent(html_body, 2)) = 3
  /\ SectionIdxs(fromstring(files[HtmlFile]).node.children[3].children) = <<10, 2>>

\* C8: create_report with its required fields and any unrecognised named fields does
\* not fail because of them, and leaves the reporter as the same call without them.
C8_ExtraFieldsIgnored ==
  rep_last.op = "create_report" => (rep_raised # "TypeError" /\ shadow = Cur)

C8_Witness ==
  /\ kind = "SegmentingHtmlReporter"
  /\ rep_last = Op("create_report", {"trg_vocab", "attentions", "reference", "score"})
  /\ rep_raised = "none"
  /\ Len(html_body) = 2
  /\ shadow = Cur

====
